---- MODULE Spec2Model ----
(***************************************************************************)
(* SipHash 1-3 / 2-4 streaming hashers of src/src/sip.rs.                  *)
(*                                                                         *)
(* A u64 is a tuple of four 16-bit limbs, least significant limb first,    *)
(* so that every operation keeps its 64-bit width (wrapping_add drops the  *)
(* carry out of limb 4, shifts drop the bits leaving the word).            *)
(* A byte slice is a sequence of numbers in 0..255.                        *)
(***************************************************************************)
EXTENDS Integers, Sequences, FiniteSets, TLC

----------------------------------------------------------------------------
\* TLC evaluates an operator's argument only where its value is first needed,
\* which nests the evaluation of a whole chain of rounds; Strict(v, e) has it
\* evaluate v before e.  Strict(v, e) = e.
Strict(v, e) == IF v = v THEN e ELSE e

\* v, evaluated in full: a function as the table of its values
Force(v) == Strict(v, v)

----------------------------------------------------------------------------
(* 64-bit words *)

LIMB == 2 ^ 16

\* the u64 written as four hexadecimal groups, most significant first
W(l3, l2, l1, l0) == <<l0, l1, l2, l3>>

ZERO == W(0, 0, 0, 0)

RECURSIVE BitOr(_, _, _)
\* a | b on the low n bits
BitOr(a, b, n) ==
    IF n = 0 THEN 0
    ELSE (IF (a % 2) + (b % 2) > 0 THEN 1 ELSE 0) + 2 * BitOr(a \div 2, b \div 2, n - 1)

RECURSIVE BitXor(_, _, _)
\* a ^ b on the low n bits
BitXor(a, b, n) ==
    IF n = 0 THEN 0
    ELSE ((a + b) % 2) + 2 * BitXor(a \div 2, b \div 2, n - 1)

RECURSIVE BitAnd(_, _, _)
\* a & b on the low n bits (a usize stays below 2^31 here)
BitAnd(a, b, n) ==
    IF n = 0 THEN 0
    ELSE ((a % 2) * (b % 2)) + 2 * BitAnd(a \div 2, b \div 2, n - 1)

\* a ^ b for every pair of bytes, tabulated once
XorByte == Force([a \in 0..255 |-> [b \in 0..255 |-> BitXor(a, b, 8)]])

\* a ^ b for 16-bit a, b, byte by byte from the table t
XorLimb(t, a, b) == t[a % 256][b % 256] + 256 * t[a \div 256][b \div 256]

\* x ^ y limb by limb from the table t
XorWord(t, x, y) ==
    <<XorLimb(t, x[1], y[1]), XorLimb(t, x[2], y[2]),
      XorLimb(t, x[3], y[3]), XorLimb(t, x[4], y[4])>>

\* u64 ^ u64
Xor(x, y) == XorWord(XorByte, x, y)

\* u64 & u64
And(x, y) ==
    <<BitAnd(x[1], y[1], 16), BitAnd(x[2], y[2], 16),
      BitAnd(x[3], y[3], 16), BitAnd(x[4], y[4], 16)>>

\* u64 | u64
Or(x, y) ==
    <<BitOr(x[1], y[1], 16), BitOr(x[2], y[2], 16),
      BitOr(x[3], y[3], 16), BitOr(x[4], y[4], 16)>>

\* limb j of x, zero outside the word
LimbAt(x, j) == IF j \in 1..4 THEN x[j] ELSE 0

\* u64 << n, 0 <= n < 64
Shl(x, n) ==
    LET q == n \div 16
        r == n % 16
        limb(i) == ((LimbAt(x, i - q) % (2 ^ (16 - r))) * (2 ^ r))
                   + (LimbAt(x, i - q - 1) \div (2 ^ (16 - r)))
    IN  <<limb(1), limb(2), limb(3), limb(4)>>

\* u64 >> n, 0 <= n < 64
Shr(x, n) ==
    LET q == n \div 16
        r == n % 16
        limb(i) == (LimbAt(x, i + q) \div (2 ^ r))
                   + ((LimbAt(x, i + q + 1) % (2 ^ r)) * (2 ^ (16 - r)))
    IN  <<limb(1), limb(2), limb(3), limb(4)>>

\* u64::rotate_left(n), 0 < n < 64: the bits leaving at the top come back
\* in at the bottom
rotate_left(x, n) ==
    LET q == n \div 16
        r == n % 16
        at(j) == x[((j - 1) % 4) + 1]
        limb(i) == ((at(i - q + 4) % (2 ^ (16 - r))) * (2 ^ r))
                   + (at(i - q + 3) \div (2 ^ (16 - r)))
    IN  <<limb(1), limb(2), limb(3), limb(4)>>

\* u64::wrapping_add: the carry out of the top limb is dropped
wrapping_add(x, y) ==
    LET s1 == x[1] + y[1]
        s2 == x[2] + y[2] + (s1 \div LIMB)
        s3 == x[3] + y[3] + (s2 \div LIMB)
        s4 == x[4] + y[4] + (s3 \div LIMB)
    IN  <<s1 % LIMB, s2 % LIMB, s3 % LIMB, s4 % LIMB>>

\* the u64 of a number below 2^31 (a u8, a small usize), zero-extended
U64(n) == <<n % LIMB, n \div LIMB, 0, 0>>

\* u64::from_le_bytes on the first Len(b) <= 8 bytes, zero-extended
from_le_bytes(b) ==
    LET at(j) == IF j <= Len(b) THEN b[j] ELSE 0
    IN  <<at(1) + 256 * at(2), at(3) + 256 * at(4),
          at(5) + 256 * at(6), at(7) + 256 * at(8)>>

\* the low `size` bytes of u64::to_le_bytes
to_le_bytes(x, size) ==
    SubSeq(<<x[1] % 256, x[1] \div 256, x[2] % 256, x[2] \div 256,
             x[3] % 256, x[3] \div 256, x[4] % 256, x[4] \div 256>>, 1, size)

RECURSIVE Reverse(_)
Reverse(s) == IF s = <<>> THEN <<>> ELSE Append(Reverse(Tail(s)), Head(s))

\* {integer}::swap_bytes for an integer of `size` bytes (held zero-extended)
swap_bytes(x, size) == from_le_bytes(Reverse(to_le_bytes(x, size)))

----------------------------------------------------------------------------
(* SipRound *)

\* compress!: the fourteen assignments of the macro, in its order
compress_body ==
    << <<"v0", "wrapping_add", "v1">>,
       <<"v1", "rotate_left", 13>>,
       <<"v1", "^=", "v0">>,
       <<"v0", "rotate_left", 32>>,
       <<"v2", "wrapping_add", "v3">>,
       <<"v3", "rotate_left", 16>>,
       <<"v3", "^=", "v2">>,
       <<"v0", "wrapping_add", "v3">>,
       <<"v3", "rotate_left", 21>>,
       <<"v3", "^=", "v0">>,
       <<"v2", "wrapping_add", "v1">>,
       <<"v1", "rotate_left", 17>>,
       <<"v1", "^=", "v2">>,
       <<"v2", "rotate_left", 32>> >>

\* the state after one assignment `$a = $a.op(b)` / `$a ^= $b`
assign(s, st) ==
    CASE st[2] = "wrapping_add" -> [s EXCEPT ![st[1]] = wrapping_add(s[st[1]], s[st[3]])]
      [] st[2] = "rotate_left"  -> [s EXCEPT ![st[1]] = rotate_left(s[st[1]], st[3])]
      [] st[2] = "^="           -> [s EXCEPT ![st[1]] = Xor(s[st[1]], s[st[3]])]

RECURSIVE compress_from(_, _)
\* the state after the assignments k, k + 1, .. of compress!
compress_from(s, k) ==
    Strict(s, IF k > Len(compress_body) THEN s
              ELSE compress_from(assign(s, compress_body[k]), k + 1))

\* compress!: one SipRound on the state
compress(s) == compress_from(s, 1)

----------------------------------------------------------------------------
(* Round counts: trait Sip *)

\* mutant: one compression round whatever the variant
C_ROUNDS_one(S) == 1

\* Sip::C_ROUNDS of Sip13Rounds / Sip24Rounds
C_ROUNDS(S) == IF S = "Sip13Rounds" THEN 1 ELSE 2

\* mutant: four finalization rounds whatever the variant
D_ROUNDS_four(S) == 4

\* Sip::D_ROUNDS of Sip13Rounds / Sip24Rounds
D_ROUNDS(S) == IF S = "Sip13Rounds" THEN 3 ELSE 4

RECURSIVE rounds(_, _)
\* the loop `while i < n { compress!(state); i += 1 }`, n rounds left
rounds(state, n) ==
    Strict(state, IF n = 0 THEN state ELSE rounds(compress(state), n - 1))

c_rounds(S, state) == rounds(state, C_ROUNDS(S))

d_rounds(S, state) == rounds(state, D_ROUNDS(S))

----------------------------------------------------------------------------
(* Loads.  host is "le" or "be": the byte order of the machine the code is
   compiled for.  copy_nonoverlapping fills the integer's memory with the
   slice's bytes, so the integer read back is the bytes in host order. *)

\* {integer}::to_le for an integer of `size` bytes
to_le(x, size, host) == IF host = "be" THEN swap_bytes(x, size) ELSE x

\* the integer whose memory holds the bytes b, on this host
from_ne_bytes(b, host) ==
    IF host = "be" THEN from_le_bytes(Reverse(b)) ELSE from_le_bytes(b)

\* the memory of an integer of `size` bytes, on this host
to_ne_bytes(x, size, host) ==
    IF host = "be" THEN Reverse(to_le_bytes(x, size)) ELSE to_le_bytes(x, size)

\* load_int_le!(buf, i, int_ty), size = size_of::<int_ty>(); i counts from 0
load_int_le(buf, i, size, host) ==
    to_le(from_ne_bytes(SubSeq(buf, i + 1, i + size), host), size, host)

\* u8to64_le: `if i + 3 < len { out = load_int_le!(buf, start + i, u32) as u64; i += 4 }`
u8to64_le_u32(buf, start, len, host, v) ==
    IF v.i + 3 < len
    THEN [i |-> v.i + 4, out |-> load_int_le(buf, start + v.i, 4, host)]
    ELSE v

\* mutant: the two bytes are assigned to out, not or-ed into it
u8to64_le_u16_assign(buf, start, len, host, v) ==
    IF v.i + 1 < len
    THEN [i |-> v.i + 2,
          out |-> Shl(load_int_le(buf, start + v.i, 2, host), v.i * 8)]
    ELSE v

\* u8to64_le: `if i + 1 < len { out |= (load_int_le!(buf, start + i, u16) as u64) << (i * 8); i += 2 }`
u8to64_le_u16(buf, start, len, host, v) ==
    IF v.i + 1 < len
    THEN [i |-> v.i + 2,
          out |-> Or(v.out, Shl(load_int_le(buf, start + v.i, 2, host), v.i * 8))]
    ELSE v

\* mutant: the last byte is or-ed in without the shift
u8to64_le_u8_unshifted(buf, start, len, v) ==
    IF v.i < len
    THEN [i |-> v.i + 1, out |-> Or(v.out, U64(buf[start + v.i + 1]))]
    ELSE v

\* u8to64_le: `if i < len { out |= (ptr::read(buf.as_ptr().add(start + i)) as u64) << (i * 8); i += 1 }`
u8to64_le_u8(buf, start, len, v) ==
    IF v.i < len
    THEN [i |-> v.i + 1, out |-> Or(v.out, Shl(U64(buf[start + v.i + 1]), v.i * 8))]
    ELSE v

\* u8to64_le(buf, start, len): i and out where the debug_assert!(i == len) stands
u8to64_le_exit(buf, start, len, host) ==
    u8to64_le_u8(buf, start, len,
        u8to64_le_u16(buf, start, len, host,
            u8to64_le_u32(buf, start, len, host, [i |-> 0, out |-> ZERO])))

\* u8to64_le(buf, start, len)
u8to64_le(buf, start, len, host) == u8to64_le_exit(buf, start, len, host).out

----------------------------------------------------------------------------
(* Hasher<S> *)

\* Hasher::reset
reset(self) ==
    [self EXCEPT
        !.length = 0,
        !.state = [v0 |-> Xor(self.k0, W(\h736f, \h6d65, \h7073, \h6575)),
                   v1 |-> Xor(self.k1, W(\h646f, \h7261, \h6e64, \h6f6d)),
                   v2 |-> Xor(self.k0, W(\h6c79, \h6765, \h6e65, \h7261)),
                   v3 |-> Xor(self.k1, W(\h7465, \h6462, \h7974, \h6573))],
        !.ntail = 0]

\* Hasher::new_with_keys
new_with_keys(key0, key1) ==
    reset([k0 |-> key0, k1 |-> key1, length |-> 0,
           state |-> [v0 |-> ZERO, v1 |-> ZERO, v2 |-> ZERO, v3 |-> ZERO],
           tail |-> ZERO, ntail |-> 0])

\* state.v3 ^= m
xor_v3(state, m) == [state EXCEPT !.v3 = Xor(state.v3, m)]

\* state.v0 ^= m
xor_v0(state, m) == [state EXCEPT !.v0 = Xor(state.v0, m)]

\* state.v2 ^= m
xor_v2(state, m) == [state EXCEPT !.v2 = Xor(state.v2, m)]

\* state.v3 ^= m; state = c_rounds::<S>(state); state.v0 ^= m
absorb(S, state, m) == xor_v0(c_rounds(S, xor_v3(state, m)), m)

\* mutant: the full lane is xor-ed into k0 instead of state.v0
short_write_into_k0(S, self, size, x) ==
    LET length == self.length + size
        needed == 8 - self.ntail
        tail   == Or(self.tail, Shl(x, 8 * self.ntail))
    IN  IF size < needed
        THEN [self EXCEPT !.length = length, !.tail = tail, !.ntail = self.ntail + size]
        ELSE [self EXCEPT
                !.length = length,
                !.state = c_rounds(S, xor_v3(self.state, tail)),
                !.k0 = Xor(self.k0, tail),
                !.ntail = size - needed,
                !.tail = IF needed < 8 THEN Shr(x, 8 * needed) ELSE ZERO]

\* mutant: the new tail is x itself, not the bytes of x past the lane
short_write_unshifted(S, self, size, x) ==
    LET length == self.length + size
        needed == 8 - self.ntail
        tail   == Or(self.tail, Shl(x, 8 * self.ntail))
    IN  IF size < needed
        THEN [self EXCEPT !.length = length, !.tail = tail, !.ntail = self.ntail + size]
        ELSE [self EXCEPT
                !.length = length,
                !.state = absorb(S, self.state, tail),
                !.ntail = size - needed,
                !.tail = IF needed < 8 THEN x ELSE ZERO]

\* mutant: a value that exactly fills the lane is buffered, not absorbed
short_write_fills(S, self, size, x) ==
    LET length == self.length + size
        needed == 8 - self.ntail
        tail   == Or(self.tail, Shl(x, 8 * self.ntail))
    IN  IF size <= needed
        THEN [self EXCEPT !.length = length, !.tail = tail, !.ntail = self.ntail + size]
        ELSE [self EXCEPT
                !.length = length,
                !.state = absorb(S, self.state, tail),
                !.ntail = size - needed,
                !.tail = IF needed < 8 THEN Shr(x, 8 * needed) ELSE ZERO]

\* Hasher::short_write::<T>(&mut self, _x, x), size = size_of::<T>()
short_write(S, self, size, x) ==
    LET length == self.length + size
        needed == 8 - self.ntail
        tail   == Or(self.tail, Shl(x, 8 * self.ntail))
    IN  IF size < needed
        THEN [self EXCEPT !.length = length, !.tail = tail, !.ntail = self.ntail + size]
        ELSE [self EXCEPT
                !.length = length,
                !.state = absorb(S, self.state, tail),
                !.ntail = size - needed,
                !.tail = IF needed < 8 THEN Shr(x, 8 * needed) ELSE ZERO]

\* mutant: the bytes replace the buffered ones instead of joining them
write_buffer_only_new(self, msg, host) ==
    [self EXCEPT
        !.tail = Shl(u8to64_le(msg, 0, Len(msg), host), 8 * self.ntail),
        !.ntail = self.ntail + Len(msg)]

\* Hasher::write, length < needed:
\* self.tail |= u8to64_le(msg, 0, length) << (8 * self.ntail); self.ntail += length; return
write_buffer(self, msg, host) ==
    [self EXCEPT
        !.tail = Or(self.tail, Shl(u8to64_le(msg, 0, Len(msg), host), 8 * self.ntail)),
        !.ntail = self.ntail + Len(msg)]

\* Hasher::write, self.ntail != 0 and length >= needed: the lane is completed
\* with the first `needed` bytes and absorbed
write_flush(S, self, msg, needed, host) ==
    LET tail == Or(self.tail, Shl(u8to64_le(msg, 0, needed, host), 8 * self.ntail))
    IN  [self EXCEPT !.tail = tail,
                     !.state = absorb(S, self.state, tail),
                     !.ntail = 0]

RECURSIVE write_loop(_, _, _, _, _, _)
\* while i < len - left { mi = load_int_le!(msg, i, u64); absorb mi; i += 8 }
\* yields the state and i at loop exit
write_loop(S, state, msg, i, bound, host) ==
    Strict(state,
        IF i < bound
        THEN write_loop(S, absorb(S, state, load_int_le(msg, i, 8, host)),
                        msg, i + 8, bound, host)
        ELSE [state |-> state, i |-> i])

\* mutant: the bytes left over are or-ed into the old tail, not stored over it
write_tail_or(self, lp, msg, left, host) ==
    [self EXCEPT
        !.state = lp.state,
        !.tail = Or(self.tail, u8to64_le(msg, lp.i, left, host)),
        !.ntail = left]

\* Hasher::write after the loop, lp its outcome:
\* self.tail = u8to64_le(msg, i, left); self.ntail = left
write_tail(self, lp, msg, left, host) ==
    [self EXCEPT
        !.state = lp.state,
        !.tail = u8to64_le(msg, lp.i, left, host),
        !.ntail = left]

\* mutant: the loop bound is taken `needed` lower, as if i counted from 0
write_blocks_bound_less_needed(S, self, msg, needed, host) ==
    LET len  == Len(msg) - needed
        left == BitAnd(len, 7, 31)
    IN  write_tail(self,
                   write_loop(S, self.state, msg, needed, len - left - needed, host),
                   msg, left, host)

\* Hasher::write from `let len = length - needed` on
write_blocks(S, self, msg, needed, host) ==
    LET len  == Len(msg) - needed
        left == BitAnd(len, 7, 31)
    IN  write_tail(self,
                   write_loop(S, self.state, msg, needed, len - left, host),
                   msg, left, host)

\* Hasher::write from `let mut needed = 0` on, self.length already updated
write_needed(S, self, msg, needed, host) ==
    IF self.ntail # 0 /\ Len(msg) < needed
    THEN write_buffer(self, msg, host)
    ELSE write_blocks(S,
                      IF self.ntail # 0 THEN write_flush(S, self, msg, needed, host)
                      ELSE self,
                      msg, needed, host)

\* mutant: self.length is updated after the early return, not before it
write_length_after_return(S, self, msg, host) ==
    IF self.ntail # 0 /\ Len(msg) < 8 - self.ntail
    THEN write_buffer(self, msg, host)
    ELSE write_needed(S, [self EXCEPT !.length = self.length + Len(msg)], msg,
                      IF self.ntail # 0 THEN 8 - self.ntail ELSE 0, host)

\* Hasher::write(&mut self, msg)
write(S, self, msg, host) ==
    write_needed(S, [self EXCEPT !.length = self.length + Len(msg)], msg,
                 IF self.ntail # 0 THEN 8 - self.ntail ELSE 0, host)

\* Hasher::write_u8
write_u8(S, self, i, host) == short_write(S, self, 1, i)

\* Hasher::write_u16
write_u16(S, self, i, host) == short_write(S, self, 2, to_le(i, 2, host))

\* mutant: the value is passed on without to_le
write_u32_no_to_le(S, self, i, host) == short_write(S, self, 4, i)

\* Hasher::write_u32
write_u32(S, self, i, host) == short_write(S, self, 4, to_le(i, 4, host))

\* Hasher::write_u64
write_u64(S, self, i, host) == short_write(S, self, 8, to_le(i, 8, host))

\* Hasher::write_usize on a 64-bit target: size_of::<usize>() = 8
write_usize(S, self, i, host) == short_write(S, self, 8, to_le(i, 8, host))

\* mutant: a length above 255 counts as 255
finish_b_saturating(self) ==
    Or(Shl(U64(IF self.length > 255 THEN 255 ELSE self.length), 56), self.tail)

\* Hasher::finish: b = ((self.length as u64 & 0xff) << 56) | self.tail
finish_b(self) == Or(Shl(And(U64(self.length), U64(255)), 56), self.tail)

\* Hasher::finish: the local `state` after d_rounds
finish_state(S, self) ==
    d_rounds(S, xor_v2(absorb(S, self.state, finish_b(self)), U64(255)))

\* state.v0 ^ state.v1 ^ state.v2 ^ state.v3
xor_all(state) == Xor(Xor(Xor(state.v0, state.v1), state.v2), state.v3)

\* mutant: the rounds run on the hasher's own state, not on a copy of it
finish_in_place(S, self) ==
    [self |-> [self EXCEPT !.state = finish_state(S, self)],
     ret  |-> xor_all(finish_state(S, self))]

\* Hasher::finish(&self): the hasher after the call and the digest returned
finish(S, self) == [self |-> self, ret |-> xor_all(finish_state(S, self))]

\* mutant: the copy starts with an empty lane buffer
clone_without_tail(self) == [self EXCEPT !.tail = ZERO, !.ntail = 0]

\* #[derive(Clone, Copy)] on Hasher, State and the public hashers: the copy
clone(self) == self

\* mutant: the bytes are written to the hasher itself, not to a copy
hash_in_place(S, self, bytes, host) ==
    [self |-> write(S, self, bytes, host),
     ret  |-> finish(S, write(S, self, bytes, host)).ret]

\* SipHasher13::hash / SipHasher24::hash / SipHasher::hash (&self, bytes):
\* the hasher after the call and the digest returned
hash(S, self, bytes, host) ==
    [self |-> self, ret |-> finish(S, write(S, clone(self), bytes, host)).ret]

----------------------------------------------------------------------------
(* The public hashers.  SipHasher13 wraps Hasher<Sip13Rounds>, SipHasher24
   wraps Hasher<Sip24Rounds> and SipHasher wraps SipHasher24; a hasher is held
   as its Hasher record, its type as one of the three names. *)

Hashers == {"SipHasher13", "SipHasher24", "SipHasher"}

\* the round counts behind each public type
Rounds(ty) == IF ty = "SipHasher13" THEN "Sip13Rounds" ELSE "Sip24Rounds"

\* SipHasher13::new / SipHasher24::new / SipHasher::new
new == new_with_keys(U64(0), U64(0))

\* mutant: the two halves of the key are taken in the wrong order
new_with_key_swapped(key) ==
    LET b0   == SubSeq(key, 9, 16)
        b1   == SubSeq(key, 1, 8)
        key0 == from_le_bytes(b0)
        key1 == from_le_bytes(b1)
    IN  new_with_keys(key0, key1)

\* SipHasher13::new_with_key / SipHasher24::new_with_key / SipHasher::new_with_key
new_with_key(key) ==
    LET b0   == SubSeq(key, 1, 8)
        b1   == SubSeq(key, 9, 16)
        key0 == from_le_bytes(b0)
        key1 == from_le_bytes(b1)
    IN  new_with_keys(key0, key1)

\* SipHasher13::keys / SipHasher24::keys / SipHasher::keys
keys(self) == <<self.k0, self.k1>>

\* SipHasher13::key / SipHasher24::key / SipHasher::key
key(self) == to_le_bytes(self.k0, 8) \o to_le_bytes(self.k1, 8)

----------------------------------------------------------------------------
(* A caller: constructs one hasher and feeds it a byte stream, piece by
   piece, through write and the typed writes, asking for digests on the way. *)

\* bytes the caller supplies at most
MaxLen == 16

\* bytes the caller passes to hash at most
MaxHash == 3

Hosts == {"le", "be"}

RECURSIVE BytesFrom(_, _, _)
\* n bytes: first, first + step, first + 2 step, ... (mod 256)
BytesFrom(first, step, n) ==
    IF n = 0 THEN <<>>
    ELSE <<first % 256>> \o BytesFrom(first + step, step, n - 1)

NoKey == <<>>

\* the streams fed: 00 01 02 .. (the reference vectors' message) and
\* ff ee dd .. (high bits set, no two neighbours equal)
CountUp == BytesFrom(0, 1, MaxLen)
HighDown == BytesFrom(255, 239, MaxLen)

\* the constructor calls made
CallNew == [name |-> "new", k0 |-> ZERO, k1 |-> ZERO, key |-> NoKey]
CallNewWithKeys(k0, k1) == [name |-> "new_with_keys", k0 |-> k0, k1 |-> k1, key |-> NoKey]
CallNewWithKey(b) == [name |-> "new_with_key", k0 |-> ZERO, k1 |-> ZERO, key |-> b]

\* the reference vectors' key 00 01 .. 0f, as two words and as bytes
RefK0 == W(\h0706, \h0504, \h0302, \h0100)
RefK1 == W(\h0f0e, \h0d0c, \h0b0a, \h0908)
RefKey == BytesFrom(0, 1, 16)

\* the hashers made and the stream each is fed: <<type, constructor call, stream>>
Cases ==
    { <<"SipHasher13", CallNew, HighDown>>,
      <<"SipHasher24", CallNewWithKeys(RefK0, RefK1), CountUp>>,
      <<"SipHasher", CallNewWithKey(RefKey), CountUp>> }

\* the hasher a constructor call returns
Construct(ct) ==
    CASE ct.name = "new"           -> new
      [] ct.name = "new_with_keys" -> new_with_keys(ct.k0, ct.k1)
      [] ct.name = "new_with_key"  -> new_with_key(ct.key)

\* ret before any digest was returned, and once bytes were written after one
NoRet == <<>>
Asked == <<"asked">>

\* c while no copy of the hasher was taken
NoCopy == <<>>

VARIABLES
    host,   \* byte order of the machine
    ty,     \* the public type of the hasher
    ctor,   \* the constructor call that made it
    input,  \* the whole stream the caller feeds
    h,      \* the hasher
    pos,    \* bytes of input supplied to h so far
    c,      \* a copy taken of h, or NoCopy
    cpos,   \* bytes of input the copy holds: those h held, then those written to it
    op,     \* the last call
    arg,    \* write, typed write, hash: the bytes passed; finish: 1 if bytes
            \* were written since an earlier digest, else 0
    ret     \* the value the last call returned; NoRet or Asked after a call
            \* that returns none

vars == <<host, ty, ctor, input, h, pos, c, cpos, op, arg, ret>>

S == Rounds(ty)

\* the next n bytes of the stream
Chunk(n) == SubSeq(input, pos + 1, pos + n)

\* ret after a call that returns nothing
Forget == IF ret = NoRet THEN NoRet ELSE Asked

InitWith(cases) ==
    /\ host \in Hosts
    /\ \E case \in cases :
        /\ ty = case[1]
        /\ ctor = case[2]
        /\ input = case[3]
    /\ h = Construct(ctor)
    /\ pos = 0
    /\ c = NoCopy
    /\ cpos = 0
    /\ op = "new"
    /\ arg = 0
    /\ ret = NoRet

Init == InitWith(Cases)

\* h.write(msg), msg the next n bytes
Write(n) ==
    /\ pos + n <= Len(input)
    /\ h' = write(S, h, Chunk(n), host)
    /\ pos' = pos + n
    /\ op' = "write"
    /\ arg' = n
    /\ ret' = Forget
    /\ UNCHANGED <<host, ty, ctor, input, c, cpos>>

TypedOps == {"write_u8", "write_u16", "write_u32", "write_u64", "write_usize"}

\* the integer a typed write is given: the one read from the next bytes of
\* the stream on this machine, uN::from_ne_bytes
Value(size) == from_ne_bytes(Chunk(size), host)

\* a typed write of an integer of `size` bytes leaving the hasher as `next`
Typed(name, size, next) ==
    /\ pos + size <= Len(input)
    /\ h' = next
    /\ pos' = pos + size
    /\ op' = name
    /\ arg' = size
    /\ ret' = Forget
    /\ UNCHANGED <<host, ty, ctor, input, c, cpos>>

\* h.write_u8(i)
WriteU8 == Typed("write_u8", 1, write_u8(S, h, Value(1), host))

\* h.write_u16(i)
WriteU16 == Typed("write_u16", 2, write_u16(S, h, Value(2), host))

\* h.write_u32(i)
WriteU32 == Typed("write_u32", 4, write_u32(S, h, Value(4), host))

\* h.write_u64(i)
WriteU64 == Typed("write_u64", 8, write_u64(S, h, Value(8), host))

\* h.write_usize(i)
WriteUsize == Typed("write_usize", 8, write_usize(S, h, Value(8), host))

\* h.finish()
Finish ==
    /\ LET r == finish(S, h)
       IN  /\ h' = r.self
           /\ ret' = r.ret
    /\ op' = "finish"
    /\ arg' = IF ret = Asked THEN 1 ELSE 0
    /\ UNCHANGED <<host, ty, ctor, input, pos, c, cpos>>

\* h.hash(bytes), bytes the next n bytes
Hash(n) ==
    /\ n <= MaxHash
    /\ pos + n <= Len(input)
    /\ LET r == hash(S, h, Chunk(n), host)
       IN  /\ h' = r.self
           /\ ret' = r.ret
    /\ op' = "hash"
    /\ arg' = n
    /\ UNCHANGED <<host, ty, ctor, input, pos, c, cpos>>

Next ==
    \/ \E n \in 0..MaxLen : Write(n)
    \/ WriteU8
    \/ WriteU16
    \/ WriteU32
    \/ WriteU64
    \/ WriteUsize
    \/ Finish
    \/ \E n \in 0..MaxHash : Hash(n)

Spec == Init /\ [][Next]_vars

----------------------------------------------------------------------------
(* Keys: a hasher is constructed and asked for its key *)

\* 16-byte keys differ in their first byte and in the step between bytes:
\* steps 1, 37, 73, .. up to 1 + 36 * MaxKeyStep
MaxKeyStep == 5

KeyArrays ==
    { BytesFrom(first, 1 + 36 * k, 16) : first \in {0, 128, 255}, k \in 0..MaxKeyStep }

KeyWords ==
    { ZERO, RefK0, RefK1,
      W(\hffff, \hffff, \hffff, \hffff),
      W(\h8000, \h0000, \h0000, \h0001),
      W(\h0123, \h4567, \h89ab, \hcdef) }

KeyCalls ==
    {CallNew}
        \cup { CallNewWithKey(b) : b \in KeyArrays }
        \cup { CallNewWithKeys(k0, k1) : k0 \in KeyWords, k1 \in KeyWords }

InitKey ==
    InitWith({ <<t, ct, <<>>>> : t \in Hashers, ct \in KeyCalls })

\* h.key()
Key ==
    /\ ret' = key(h)
    /\ op' = "key"
    /\ UNCHANGED <<host, ty, ctor, input, h, pos, c, cpos, arg>>

\* h.keys()
Keys ==
    /\ ret' = keys(h)
    /\ op' = "keys"
    /\ UNCHANGED <<host, ty, ctor, input, h, pos, c, cpos, arg>>

NextKey == Key \/ Keys

SpecKey == InitKey /\ [][NextKey]_vars

----------------------------------------------------------------------------
(* Copies: a hasher is written to, copied, and both go on *)

\* length of the stream fed to a hasher and its copy
MaxCopyLen == 8

CopyCases ==
    { <<"SipHasher13", CallNew, SubSeq(HighDown, 1, MaxCopyLen)>>,
      <<"SipHasher24", CallNewWithKeys(RefK0, RefK1), SubSeq(CountUp, 1, MaxCopyLen)>> }

InitCopy == InitWith(CopyCases)

\* let mut c = h; (or h.clone())
Clone ==
    /\ c = NoCopy
    /\ c' = clone(h)
    /\ cpos' = pos
    /\ op' = "clone"
    /\ arg' = 0
    /\ ret' = Forget
    /\ UNCHANGED <<host, ty, ctor, input, h, pos>>

\* c.write(msg), msg the n bytes of the stream that follow those c holds
WriteCopy(n) ==
    /\ c # NoCopy
    /\ cpos + n <= Len(input)
    /\ c' = write(S, c, SubSeq(input, cpos + 1, cpos + n), host)
    /\ cpos' = cpos + n
    /\ op' = "c.write"
    /\ arg' = n
    /\ ret' = Forget
    /\ UNCHANGED <<host, ty, ctor, input, h, pos>>

\* c.finish()
FinishCopy ==
    /\ c # NoCopy
    /\ LET r == finish(S, c)
       IN  /\ c' = r.self
           /\ ret' = r.ret
    /\ op' = "c.finish"
    /\ arg' = 0
    /\ UNCHANGED <<host, ty, ctor, input, h, pos, cpos>>

NextCopy ==
    \/ \E n \in 0..MaxCopyLen : Write(n)
    \/ Finish
    \/ Clone
    \/ \E n \in 0..MaxCopyLen : WriteCopy(n)
    \/ FinishCopy

SpecCopy == InitCopy /\ [][NextCopy]_vars

----------------------------------------------------------------------------
(* The engine alone: a hasher is constructed and written to, by write and by
   the typed writes, in any order *)

NextEngine ==
    \/ \E n \in 0..MaxLen : Write(n)
    \/ WriteU8
    \/ WriteU16
    \/ WriteU32
    \/ WriteU64
    \/ WriteUsize

SpecEngine == Init /\ [][NextEngine]_vars

----------------------------------------------------------------------------
(* Long streams: more than 256 bytes are written, in a few large pieces *)

\* bytes the caller supplies at most
MaxLong == 260

\* the lengths of the pieces
LongChunks == {3, 40, 64}

RECURSIVE LongBytesFrom(_, _, _)
\* BytesFrom(first, step, n), put together from runs of 64 bytes
LongBytesFrom(first, step, n) ==
    IF n <= 64 THEN BytesFrom(first, step, n)
    ELSE BytesFrom(first, step, 64) \o LongBytesFrom(first + 64 * step, step, n - 64)

LongCases ==
    { <<"SipHasher13", CallNew, LongBytesFrom(255, 239, MaxLong)>>,
      <<"SipHasher24", CallNewWithKeys(RefK0, RefK1), LongBytesFrom(0, 1, MaxLong)>> }

InitLong == InitWith(LongCases)

NextLong ==
    \/ \E n \in LongChunks : Write(n)
    \/ Finish

SpecLong == InitLong /\ [][NextLong]_vars

----------------------------------------------------------------------------
(* Where write reads its slice.  Which bytes write loads depends on self.ntail
   and msg.len() alone; these definitions follow the indices of the code and
   leave the values out. *)

\* u8to64_le(buf, start, len): its loads, as [at, size], and i at exit
u8to64_le_plan(start, len) ==
    LET i1 == IF 0 + 3 < len THEN 0 + 4 ELSE 0
        i2 == IF i1 + 1 < len THEN i1 + 2 ELSE i1
        i3 == IF i2 < len THEN i2 + 1 ELSE i2
    IN  [start |-> start,
         len   |-> len,
         loads |-> (IF 0 + 3 < len THEN <<[at |-> start + 0, size |-> 4]>> ELSE <<>>)
                   \o (IF i1 + 1 < len THEN <<[at |-> start + i1, size |-> 2]>> ELSE <<>>)
                   \o (IF i2 < len THEN <<[at |-> start + i2, size |-> 1]>> ELSE <<>>),
         i     |-> i3]

RECURSIVE loop_plan_inclusive(_, _)
\* mutant: the loop goes on while i <= len - left
loop_plan_inclusive(i, bound) ==
    IF i <= bound THEN <<i>> \o loop_plan_inclusive(i + 8, bound) ELSE <<>>

RECURSIVE loop_plan(_, _)
\* while i < len - left { load_int_le!(msg, i, u64); i += 8 }: the indices loaded
loop_plan(i, bound) ==
    IF i < bound THEN <<i>> \o loop_plan(i + 8, bound) ELSE <<>>

\* Hasher::write with self.ntail = ntail and msg.len() = length: the calls of
\* u8to64_le, the indices of the block loads, and self.ntail at return
write_plan(ntail, length) ==
    LET needed == IF ntail # 0 THEN 8 - ntail ELSE 0
        len    == length - needed
        left   == BitAnd(len, 7, 31)
        blocks == loop_plan(needed, len - left)
    IN  IF ntail # 0 /\ length < needed
        THEN [tails  |-> <<u8to64_le_plan(0, length)>>,
              blocks |-> <<>>,
              ntail  |-> ntail + length]
        ELSE [tails  |-> (IF ntail # 0 THEN <<u8to64_le_plan(0, needed)>> ELSE <<>>)
                         \o <<u8to64_le_plan(needed + 8 * Len(blocks), left)>>,
              blocks |-> blocks,
              ntail  |-> left]

\* Hasher::write with self.ntail = ntail and msg.len() = length: the usize
\* subtractions a - b it evaluates, in order, and self.ntail at return
write_subs(ntail, length) ==
    LET needed == IF ntail # 0 THEN 8 - ntail ELSE 0
        len    == length - needed
        left   == len % 8
    IN  IF ntail # 0 /\ length < needed
        THEN [subs  |-> <<[a |-> 8, b |-> ntail]>>,
              ntail |-> ntail + length]
        ELSE [subs  |-> (IF ntail # 0 THEN <<[a |-> 8, b |-> ntail]>> ELSE <<>>)
                        \o <<[a |-> length, b |-> needed],
                              [a |-> len, b |-> left]>>,
              ntail |-> left]

\* mutant: no early return when size < needed
short_write_subs_no_return(ntail, size) ==
    [subs  |-> <<[a |-> 8, b |-> ntail], [a |-> size, b |-> 8 - ntail]>>,
     ntail |-> size - (8 - ntail)]

\* Hasher::short_write with self.ntail = ntail and size_of::<T>() = size: the
\* usize subtractions a - b it evaluates, in order, and self.ntail at return
short_write_subs(ntail, size) ==
    IF size < 8 - ntail
    THEN [subs  |-> <<[a |-> 8, b |-> ntail]>>,
          ntail |-> ntail + size]
    ELSE [subs  |-> <<[a |-> 8, b |-> ntail], [a |-> size, b |-> 8 - ntail]>>,
          ntail |-> size - (8 - ntail)]

----------------------------------------------------------------------------
(* u8to64_le alone: it is given a slice, a start and a length below 8 that
   fit the slice.  Here input is the slice buf, pos is start, arg is len and
   ret is what the call leaves: i and out. *)

\* bytes of the slice at most
MaxBuf == 9

\* the slices: no byte zero; counting up from 01, and going down from ff
LoadSlices ==
    { BytesFrom(1, 1, n) : n \in 0..MaxBuf } \cup { BytesFrom(255, 239, n) : n \in 0..MaxBuf }

InitLoad ==
    /\ host \in Hosts
    /\ input \in LoadSlices
    /\ pos \in 0..Len(input)
    /\ arg \in 0..7
    /\ pos + arg <= Len(input)
    /\ ty = "SipHasher13"
    /\ ctor = CallNew
    /\ h = Construct(ctor)
    /\ c = NoCopy
    /\ cpos = 0
    /\ op = "slice"
    /\ ret = NoRet

\* u8to64_le(buf, start, len)
Load ==
    /\ op = "slice"
    /\ op' = "u8to64_le"
    /\ ret' = u8to64_le_exit(input, pos, arg, host)
    /\ UNCHANGED <<host, ty, ctor, input, h, pos, c, cpos, arg>>

NextLoad == Load

SpecLoad == InitLoad /\ [][NextLoad]_vars

----------------------------------------------------------------------------
(* What the caller has done so far *)

\* the hasher as constructed
Fresh == Construct(ctor)

\* every byte supplied to h so far
Stream == SubSeq(input, 1, pos)

\* the digest of the whole stream written in one piece to a fresh hasher
OneWrite(bytes) == finish(S, write(S, Fresh, bytes, host)).ret

\* the bytes of the last write, typed write or hash
LastBytes == IF op = "hash" THEN Chunk(arg) ELSE SubSeq(input, pos - arg + 1, pos)

\* bytes buffered in h before the last write or typed write
NtailBefore == (pos - arg) % 8

\* the 8 bytes of a digest, as to_le_bytes gives them
Hex8(b1, b2, b3, b4, b5, b6, b7, b8) == <<b1, b2, b3, b4, b5, b6, b7, b8>>

----------------------------------------------------------------------------
(* Claims *)

\* C1: however the stream was cut into write calls (empty pieces and pieces
\* that leave 1..7 bytes buffered included), finish returns the digest that
\* one write of the whole stream to a fresh hasher, then finish, returns.
C1_SplitIndependent ==
    op \in {"new", "write"} => finish(S, h).ret = OneWrite(Stream)

\* C1 witness: the last write found bytes buffered, completed the lane and
\* went on to absorb at least one full block of its own
C1_Witness ==
    /\ op = "write"
    /\ NtailBefore # 0
    /\ arg >= (8 - NtailBefore) + 8

\* C2: h.hash(bytes) is the digest of bytes alone under h's keys, whatever was
\* written to h before.
C2_HashIsOneShot ==
    op = "hash" =>
        ret = finish(S, write(S, new_with_keys(keys(h)[1], keys(h)[2]),
                              LastBytes, host)).ret

\* the little-endian bytes of the value the last typed write was given
LastValueLe == to_le_bytes(from_ne_bytes(LastBytes, host), arg)

\* C3 as claimed: on either host, a typed write to a fresh hasher gives the
\* digest of a write of the value's little-endian bytes.
C3_AnyHostLittleEndian ==
    (op \in TypedOps /\ pos = arg) =>
        finish(S, h).ret = OneWrite(LastValueLe)

\* C3 amended: a typed write to a fresh hasher gives the digest of a write of
\* the value's bytes in host order: the little-endian bytes on a little-endian
\* host, the big-endian bytes on a big-endian host.
C3_HostOrder ==
    (op \in TypedOps /\ pos = arg) =>
        finish(S, h).ret =
            OneWrite(IF host = "le" THEN LastValueLe ELSE Reverse(LastValueLe))

\* C3 witness: write_u32 of a value whose four bytes differ, big-endian host
C3_Witness ==
    /\ host = "be"
    /\ op = "write_u32"
    /\ pos = arg
    /\ LastValueLe # Reverse(LastValueLe)

\* C4: finish changes no field of the hasher and returns the digest of all
\* that was written so far, also when bytes were written after an earlier
\* finish; finish called again at once returns the same digest.
C4_FinishPure ==
    [][op' = "finish" =>
        /\ h' = h
        /\ ret' = OneWrite(Stream)
        /\ (op = "finish" => ret' = ret)]_vars

\* C4 witness: write, finish, write, finish, with bytes left buffered
C4_Witness ==
    /\ op = "finish"
    /\ arg = 1
    /\ h.ntail # 0
    /\ pos > 8

\* byte j (0 the least significant) of a 64-bit word
ByteOf(x, j) == (x[(j \div 2) + 1] \div (256 ^ (j % 2))) % 256

\* b is the 8 little-endian bytes of x
IsLe(x, b) == Len(b) = 8 /\ \A j \in 0..7 : b[j + 1] = ByteOf(x, j)

\* C5: new_with_key(b).key() is b, new_with_key(b).keys() is the pair of the
\* little-endian values of b[0..8] and b[8..16], and new_with_keys(k0, k1).key()
\* is the little-endian bytes of k0 followed by those of k1.
C5_KeyRoundTrip ==
    /\ (ctor.name = "new_with_key" /\ op = "key") => ret = ctor.key
    /\ (ctor.name = "new_with_key" /\ op = "keys") =>
            /\ IsLe(ret[1], SubSeq(ctor.key, 1, 8))
            /\ IsLe(ret[2], SubSeq(ctor.key, 9, 16))
    /\ (ctor.name = "new_with_keys" /\ op = "key") =>
            /\ Len(ret) = 16
            /\ IsLe(ctor.k0, SubSeq(ret, 1, 8))
            /\ IsLe(ctor.k1, SubSeq(ret, 9, 16))

\* C5 witness: keys() of a hasher made from 16 bytes whose halves differ, on
\* a big-endian host
C5_Witness ==
    /\ host = "be"
    /\ ctor.name = "new_with_key"
    /\ op = "keys"
    /\ ret[1] # ret[2]
    /\ ctor.key[1] # ctor.key[8]

\* the reference key 00 01 .. 0f hashing the message 00 01 02 .. with
\* SipHash-2-4
RefRun ==
    /\ ty \in {"SipHasher24", "SipHasher"}
    /\ keys(h) = <<RefK0, RefK1>>
    /\ input = CountUp
    /\ op = "finish"

\* C6 as claimed: the digests of the 0, 1 and 15 byte messages, as
\* little-endian bytes.
C6_VectorsAsClaimed ==
    RefRun =>
        /\ pos = 0 => to_le_bytes(ret, 8) =
                Hex8(\h31, \h0e, \h0e, \hdd, \h47, \hdb, \h6f, \h72)
        /\ pos = 1 => to_le_bytes(ret, 8) =
                Hex8(\hfd, \h67, \hdc, \h93, \hc5, \h39, \hf8, \h74)
        /\ pos = 15 => to_le_bytes(ret, 8) =
                Hex8(\ha1, \h29, \hca, \h61, \h49, \hbe, \h45, \he5)

\* C6 amended: the 15 byte message's digest is the integer a129ca6149be45e5,
\* so its little-endian bytes are e5 45 be 49 61 ca 29 a1; the other two are
\* as claimed.
C6_Vectors ==
    RefRun =>
        /\ pos = 0 => to_le_bytes(ret, 8) =
                Hex8(\h31, \h0e, \h0e, \hdd, \h47, \hdb, \h6f, \h72)
        /\ pos = 1 => to_le_bytes(ret, 8) =
                Hex8(\hfd, \h67, \hdc, \h93, \hc5, \h39, \hf8, \h74)
        /\ pos = 15 =>
                /\ ret = W(\ha129, \hca61, \h49be, \h45e5)
                /\ to_le_bytes(ret, 8) =
                    Hex8(\he5, \h45, \hbe, \h49, \h61, \hca, \h29, \ha1)

\* C6 witness: the digest of the 15 byte message was asked for
C6_Witness == RefRun /\ pos = 15

\* SipHasher13::new() asked for its digest with nothing written
ZeroRun ==
    /\ ty = "SipHasher13"
    /\ ctor.name = "new"
    /\ op = "finish"
    /\ pos = 0

\* C7 as claimed: the key is zero and the digest's bytes are ab ac 0a 1e 1b 62 f4 d1.
C7_ZeroKeyAsClaimed ==
    ZeroRun =>
        /\ keys(h) = <<ZERO, ZERO>>
        /\ to_le_bytes(ret, 8) =
            Hex8(\hab, \hac, \h0a, \h1e, \h1b, \h62, \hf4, \hd1)

\* C7 amended: the key is zero and the digest's bytes are 2c 53 0c 15 62 a7 fb d1.
C7_ZeroKey ==
    ZeroRun =>
        /\ keys(h) = <<ZERO, ZERO>>
        /\ to_le_bytes(ret, 8) =
            Hex8(\h2c, \h53, \h0c, \h15, \h62, \ha7, \hfb, \hd1)

\* C7 witness
C7_Witness == ZeroRun /\ ret # NoRet

\* C8: once a copy c of h was taken, c's digest is that of the bytes h held
\* when copied followed by those written to c, and h's digest is that of the
\* bytes written to h: writes to one never show in the other.
C8_CopyIndependent ==
    c # NoCopy =>
        /\ finish(S, c).ret = OneWrite(SubSeq(input, 1, cpos))
        /\ finish(S, h).ret = OneWrite(Stream)

\* C8 witness: the copy was taken with bytes buffered, then h was written to
\* and absorbed a block while the copy still holds its buffered bytes
C8_Witness ==
    /\ c # NoCopy
    /\ op = "write"
    /\ arg > 0
    /\ pos >= 8
    /\ cpos < 8
    /\ c.ntail # 0
    /\ c.ntail = cpos

\* C9: whatever was called since, keys() returns the pair the hasher was
\* constructed with.
C9_KeysKept == keys(h) = keys(Fresh)

\* C9 witness: a typed write that absorbed a block, and a digest asked earlier
C9_Witness ==
    /\ op = "write_usize"
    /\ ret = Asked
    /\ pos > 8
    /\ keys(h) # <<ZERO, ZERO>>

\* C10: on a little-endian host a typed write leaves the hasher exactly as a
\* write of the value's little-endian bytes would, from any state.
C10_TypedIsWrite ==
    [][(host = "le" /\ op' \in TypedOps) =>
        h' = write(S, h, to_le_bytes(Value(arg'), arg'), host)]_vars

\* C10 witness: a write_u32 straddled the lane boundary: the lane was
\* absorbed and the overflow bytes are the new tail
C10_Witness ==
    /\ host = "le"
    /\ op = "write_u32"
    /\ h.ntail \in 1..3
    /\ h.tail # ZERO


RECURSIVE absorbed(_, _, _, _, _)
\* the state after the 8-byte blocks k, k + 1, .. n - 1 of bytes, each read as
\* a little-endian u64, were absorbed in this order
absorbed(S0, state, bytes, k, n) ==
    Strict(state,
        IF k >= n THEN state
        ELSE absorbed(S0,
                      absorb(S0, state, from_le_bytes(SubSeq(bytes, 8 * k + 1, 8 * k + 8))),
                      bytes, k + 1, n))

\* C11: after construction and after every write or typed write, the state is
\* the constructed state with exactly (length - ntail) div 8 blocks absorbed:
\* the first blocks of the stream, in stream order, none skipped.
C11_BlocksAbsorbed ==
    h.state = absorbed(S, Fresh.state, Stream, 0, (h.length - h.ntail) \div 8)

\* C11 witness: a write found at least 4 bytes buffered, completed the lane
\* and absorbed a full block of its own that follows it
C11_Witness ==
    /\ op = "write"
    /\ NtailBefore >= 4
    /\ arg >= (8 - NtailBefore) + 8
    /\ (h.length - h.ntail) \div 8 = 2


\* C12: in every state reached by write and typed writes, the bytes ntail .. 7
\* of tail (bits 8 * ntail .. 63) are zero.
C12_TailHighZero ==
    \A j \in 0..7 : j >= h.ntail => ByteOf(h.tail, j) = 0

\* C12 witness: a write_u64 found 7 bytes buffered: the lane was absorbed and
\* 7 bytes of the value are the new tail, its highest used byte not zero
C12_Witness ==
    /\ op = "write_u64"
    /\ NtailBefore = 7
    /\ h.ntail = 7
    /\ ByteOf(h.tail, 6) # 0


\* C13: in every state reached by write and typed writes, 0 <= ntail <= 7.
C13_NtailBelow8 == h.ntail \in 0..7

\* C13 witness: a write_u8 found 7 bytes buffered and filled the lane, which
\* was absorbed
C13_Witness ==
    /\ op = "write_u8"
    /\ NtailBefore = 7
    /\ h.ntail = 0
    /\ h.length >= 8


\* C14: after every write and typed write, on every path, length is the
\* number of bytes supplied since construction.
C14_LengthIsTotal == h.length = pos

\* C14 witness: a write of a slice too short to fill the buffered lane (the
\* early return), with more than a block supplied before
C14_Witness ==
    /\ op = "write"
    /\ NtailBefore # 0
    /\ arg > 0
    /\ arg < 8 - NtailBefore
    /\ h.ntail = NtailBefore + arg
    /\ pos > 8


\* the digest by the formula: b is tail with the byte `lenbyte` or-ed into its
\* top byte; v3 ^= b; c rounds; v0 ^= b; v2 ^= 0xff; d rounds; v0 ^ v1 ^ v2 ^ v3
FinishOf(S0, state, tail, lenbyte) ==
    LET b == <<tail[1], tail[2], tail[3], BitOr(tail[4], lenbyte * 256, 16)>>
    IN  xor_all(d_rounds(S0, xor_v2(xor_v0(c_rounds(S0, xor_v3(state, b)), b),
                                    W(0, 0, 0, \hff))))

\* C15: the digest finish returns is the formula's, with length entering
\* only as length mod 256: the hasher with the same v0..v3 and tail and a
\* length 256 lower has the same digest.
C15_LengthMod256 ==
    op = "finish" =>
        /\ ret = FinishOf(S, h.state, h.tail, h.length % 256)
        /\ h.length >= 256 =>
                finish(S, [h EXCEPT !.length = h.length - 256]).ret = ret

\* C15 witness: a digest asked for after more than 256 bytes, with bytes
\* buffered
C15_Witness ==
    /\ op = "finish"
    /\ h.length > 256
    /\ h.ntail # 0
    /\ ret # NoRet


\* slices of up to this many bytes are passed to write
MaxSlice == 24

\* every load of the plan lies inside a slice of `length` bytes, and the
\* debug assertions of u8to64_le and load_int_le! hold
PlanInSlice(plan, length) ==
    /\ \A k \in 1..Len(plan.blocks) :
            /\ plan.blocks[k] >= 0
            /\ plan.blocks[k] + 8 <= length
    /\ \A k \in 1..Len(plan.tails) :
            LET t == plan.tails[k]
            IN  /\ t.len < 8
                /\ t.start >= 0
                /\ t.start + t.len <= length
                /\ t.i = t.len
                /\ \A l \in 1..Len(t.loads) :
                        /\ t.loads[l].at >= t.start
                        /\ t.loads[l].at + t.loads[l].size <= length

\* C16: from every reachable hasher and for every slice, each block load of
\* write at i has i + 8 <= msg.len(), each u8to64_le(msg, start, len) has
\* len < 8 and start + len <= msg.len() and ends with i = len, and each of
\* its loads lies inside the slice; the write that was made left ntail as
\* planned.
C16_LoadsInSlice ==
    /\ \A n \in 0..MaxSlice : PlanInSlice(write_plan(h.ntail, n), n)
    /\ op = "write" => h.ntail = write_plan(NtailBefore, arg).ntail

\* C16 witness: a write found 7 bytes buffered, completed the lane with one
\* byte and loaded a block at index 1
C16_Witness ==
    /\ op = "write"
    /\ NtailBefore = 7
    /\ write_plan(NtailBefore, arg).blocks = <<1>>
    /\ h.length = 16


\* C17: on a little-endian host, after any writes and typed writes, ntail is
\* the number of bytes supplied mod 8 and byte j of tail is byte j of the last
\* ntail bytes of the stream, the bytes above them zero.
C17_TailIsLastBytes ==
    host = "le" =>
        /\ h.ntail = pos % 8
        /\ \A j \in 0..7 :
                ByteOf(h.tail, j) =
                    IF j < h.ntail THEN Stream[pos - h.ntail + j + 1] ELSE 0

\* C17 witness: a write_u16 found 7 bytes buffered: its first byte completed
\* the lane, its second is the tail
C17_Witness ==
    /\ host = "le"
    /\ op = "write_u16"
    /\ NtailBefore = 7
    /\ h.ntail = 1
    /\ ByteOf(h.tail, 0) = Stream[pos]
    /\ Stream[pos] # 0


\* C18: h.hash(bytes) returns the digest h.write(bytes); h.finish() would
\* return, which is the digest of all bytes written to h so far followed by
\* bytes, and leaves every field of h as it was.
C18_HashOnCopy ==
    [][op' = "hash" =>
        /\ h' = h
        /\ ret' = finish(S, write(S, h, SubSeq(input, pos + 1, pos + arg'), host)).ret
        /\ ret' = OneWrite(SubSeq(input, 1, pos + arg'))]_vars

\* C18 witness: hash of 3 bytes by a hasher that holds more than a block and
\* has bytes buffered
C18_Witness ==
    /\ op = "hash"
    /\ arg = 3
    /\ pos > 8
    /\ h.ntail >= 5


\* no subtraction of the list underflows
NoUnderflow(run) == \A k \in 1..Len(run.subs) : run.subs[k].a >= run.subs[k].b

\* C19: no unsigned subtraction underflows: from every reachable hasher, a
\* write of any length evaluates 8 - ntail, length - needed and len - left
\* with a >= b, and a typed write of any width evaluates 8 - ntail and
\* size - needed with a >= b; the ntail these subtractions give is the one
\* the hasher has after the call.
C19_NoUnderflow ==
    /\ \A n \in 0..MaxSlice : NoUnderflow(write_subs(h.ntail, n))
    /\ \A size \in {1, 2, 4, 8} : NoUnderflow(short_write_subs(h.ntail, size))
    /\ op = "write" => h.ntail = write_subs(NtailBefore, arg).ntail
    /\ op \in TypedOps => h.ntail = short_write_subs(NtailBefore, arg).ntail

\* C19 witness: a write_u16 that exactly fills the buffer (size = needed)
C19_Witness ==
    /\ op = "write_u16"
    /\ NtailBefore = 6
    /\ short_write_subs(NtailBefore, arg).subs[2] = [a |-> 2, b |-> 2]
    /\ h.ntail = 0


\* a list of loads has no two of one width
OneOfEach(loads) ==
    \A k, l \in 1..Len(loads) : loads[k].size = loads[l].size => k = l

\* C20: for len in 0..7 and start + len <= buf.len(), u8to64_le(buf, start,
\* len) is the sum of buf[start + j] << 8j over j < len, every bit above
\* zero; it is built from at most one 4-byte, one 2-byte and one 1-byte
\* load, and i = len when it returns.
C20_PacksLittleEndian ==
    op = "u8to64_le" =>
        /\ \A j \in 0..7 :
                ByteOf(ret.out, j) = IF j < arg THEN input[pos + j + 1] ELSE 0
        /\ ret.i = arg
        /\ u8to64_le_plan(pos, arg).i = ret.i
        /\ OneOfEach(u8to64_le_plan(pos, arg).loads)
        /\ \A k \in 1..Len(u8to64_le_plan(pos, arg).loads) :
                u8to64_le_plan(pos, arg).loads[k].size \in {4, 2, 1}

\* C20 witness: seven bytes from the middle of a slice on a big-endian
\* machine, packed by all three loads
C20_Witness ==
    /\ op = "u8to64_le"
    /\ host = "be"
    /\ arg = 7
    /\ pos = 2
    /\ Len(u8to64_le_plan(pos, arg).loads) = 3
    /\ ByteOf(ret.out, 6) = input[9]

====
